---- MODULE Spec2Model ----
(***************************************************************************)
(* Session pipeline of the duplex audio relay server                       *)
(* (moshi/moshi/server.py: ServerState.handle_chat, and its older twin      *)
(* server_opus.py: ServerState.handle_conn).                                *)
(*                                                                         *)
(* One connection handler per session runs under the process-wide          *)
(* asyncio.Lock; inside the lock it sends the handshake and gathers three   *)
(* cooperative loops: recv_loop (Ingest), opus_loop (Process) and           *)
(* send_loop (Egress).  Tasks are cooperative: a task runs from one await   *)
(* to the next without interleaving.  An action below is one such run;      *)
(* where a run is split into several steps (the body of recv_loop, the      *)
(* frame and column loops of opus_loop) the `running' token keeps every     *)
(* other task out until the run reaches its next await.                     *)
(*                                                                         *)
(* Calls into the model (encode, step, decode), into the stream reader and  *)
(* writes to a closed websocket may raise.  Samples are numbered in the     *)
(* order read_pcm returns them, one sample per payload byte.                *)
(*                                                                         *)
(* Spec is the server as deployed: frame_size is one model frame, so encode *)
(* returns one code column per chunk.  WideSpec runs one connection with    *)
(* NumCols columns per chunk, which makes the column loop iterate.          *)
(* FairSpec adds the event loop's fairness to Spec, and ClosingSpec adds    *)
(* that every connection eventually closes.                                 *)
(***************************************************************************)
EXTENDS Integers, Sequences, FiniteSets, TLC

\* ---------------------------------------------------------------- bounds
NumSessions == 2      \* connections that may arrive
MaxRecv     == 2      \* inbound transport messages received, process-wide
MaxPayload  == 2      \* payload bytes of one inbound message
MaxSamples  == 4      \* payload bytes fed to the stream readers, process-wide
FrameSize   == 2      \* self.frame_size, scaled down (one sample per payload byte)
NumCols     == 2      \* codes.shape[-1] when one chunk spans several model frames

\* ---------------------------------------------------------------- constants
WarmupChunks == 4

Sessions == 1..NumSessions

NoTokens      == -1                 \* `tokens is None'
ReservedIds   == {0, 3}             \* text ids never surfaced
TextIds       == {0, 3, 5}          \* text-channel ids the model may emit
KindBytes     == {0, 1, 2, 7}       \* first byte of an inbound binary message
PayloadByte   == 9

RECURSIVE Pad(_)
Pad(n) == IF n = 0 THEN <<>> ELSE <<PayloadByte>> \o Pad(n - 1)

\* Inbound transport messages: binary with any data (possibly empty), or text.
Messages ==
    {[type |-> "BINARY", data |-> <<>>], [type |-> "TEXT", data |-> <<>>]}
    \cup {[type |-> "BINARY", data |-> <<k>> \o Pad(n)] :
              k \in KindBytes, n \in 0..MaxPayload}

NoMessage == [type |-> "NONE", data |-> <<>>]

VARIABLES
    mainpc,        \* main(): "init", "warmup", "serving", "crashed"
    primed,        \* streaming_forever(1) has been called on mimi and lm_gen
    warmed,        \* chunks run through warmup()
    ncols,         \* codes.shape[-1]: code columns mimi.encode returns for a chunk
    peers,         \* the connections that arrive in this run
    lock,          \* self.lock: TRUE while the asyncio.Lock is locked
    running,       \* 0, or the session one of whose tasks is between two awaits
    hpc,           \* handle_chat: "idle","waiting","handshake","gather","closed","failed"
    transport,     \* the websocket: "open" or "closed"
    close,         \* the `close' flag of the session
    rpc,           \* recv_loop: "none","wait","handle","done","raised"
    opc,           \* opus_loop: "none","check","sleep","while","col","tok","sent","done",
                   \*   "raised_model" (encode/step/decode raised), "raised_send"
    spc,           \* send_loop: "none","check","sleep","done","raised"
    nrx,           \* messages recv_loop has taken from the websocket
    message,       \* `message' of recv_loop while it is being handled
    nappend,       \* calls of opus_reader.append_bytes
    decAppended,   \* samples fed to the stream reader (one per payload byte)
    decRead,       \* samples returned so far by opus_reader.read_pcm
    all_pcm_data,  \* opus_loop's accumulation buffer
    encoded,       \* frames passed to mimi.encode
    col,           \* c of `for c in range(codes.shape[-1])'
    nsteps,        \* calls of lm_gen.step that returned
    tokens,        \* `tokens' of opus_loop while the column is being handled
    encQ,          \* pcm frames appended to opus_writer and not yet read
    wire,          \* messages written to the websocket
    ncalls,        \* calls of mimi.encode / lm_gen.step / mimi.decode
    resets         \* calls of reset_streaming

vars == <<mainpc, primed, warmed, ncols, peers, lock, running, hpc, transport, close, rpc, opc, spc,
          nrx, message, nappend, decAppended, decRead, all_pcm_data, encoded,
          col, nsteps, tokens, encQ, wire, ncalls, resets>>

srv   == <<mainpc, primed, warmed, ncols, peers>>
loops == <<rpc, opc, spc>>
rx    == <<nrx, message, nappend, decAppended>>
audio == <<decRead, all_pcm_data, encoded, col, nsteps, tokens, encQ>>

\* ---------------------------------------------------------------- helpers
RECURSIVE Flatten(_)
Flatten(ss) == IF ss = <<>> THEN <<>> ELSE Head(ss) \o Flatten(Tail(ss))

RECURSIVE Sum(_, _)
Sum(f, n) == IF n = 0 THEN 0 ELSE f[n] + Sum(f, n - 1)

Range(n, m) == [i \in 1..(m - n + 1) |-> n + i - 1]

\* ws.send_bytes / websocket.send: writes when the connection is open, raises
\* otherwise
CanSend(s) == transport[s] = "open"

\* faulty variant: a loop that never looks at close
AfterCheckIgnored(c) == "sleep"

\* `if close: return' at the top of `while True' in opus_loop and send_loop
AfterCheck(c) == IF c THEN "done" ELSE "sleep"

\* the state main() starts from, whatever the deployment and the peers
Start ==
    /\ mainpc = "init"
    /\ primed = FALSE
    /\ warmed = 0
    /\ lock = FALSE
    /\ running = 0
    /\ hpc = [s \in Sessions |-> "idle"]
    /\ transport = [s \in Sessions |-> "open"]
    /\ close = [s \in Sessions |-> FALSE]
    /\ rpc = [s \in Sessions |-> "none"]
    /\ opc = [s \in Sessions |-> "none"]
    /\ spc = [s \in Sessions |-> "none"]
    /\ nrx = [s \in Sessions |-> 0]
    /\ message = [s \in Sessions |-> NoMessage]
    /\ nappend = [s \in Sessions |-> 0]
    /\ decAppended = [s \in Sessions |-> 0]
    /\ decRead = [s \in Sessions |-> 0]
    /\ all_pcm_data = [s \in Sessions |-> [none |-> TRUE, data |-> <<>>]]
    /\ encoded = [s \in Sessions |-> <<>>]
    /\ col = [s \in Sessions |-> 0]
    /\ nsteps = [s \in Sessions |-> 0]
    /\ tokens = [s \in Sessions |-> NoTokens]
    /\ encQ = [s \in Sessions |-> <<>>]
    /\ wire = [s \in Sessions |-> <<>>]
    /\ ncalls = [s \in Sessions |-> 0]
    /\ resets = [s \in Sessions |-> 0]

\* frame_size is one model frame (sample_rate / frame_rate), so encode returns
\* one code column for a chunk; every connection may arrive
Init ==
    /\ Start
    /\ ncols = 1
    /\ peers = Sessions

\* a coarser chunk: encode returns several code columns, so that the column
\* loop of opus_loop iterates; one connection
WideInit ==
    /\ Start
    /\ ncols = NumCols
    /\ peers = {1}

\* ---------------------------------------------------------------- main()
\* ServerState(...): the lock is created and the model put in streaming mode
\* with batch size 1, which may raise
Construct ==
    /\ mainpc = "init"
    /\ \/ /\ primed' = TRUE
          /\ mainpc' = "warmup"
       \/ /\ mainpc' = "crashed"
          /\ UNCHANGED primed
    /\ UNCHANGED <<warmed, ncols, peers, lock, running, hpc, transport, close,
                   loops, rx, audio, wire, ncalls, resets>>

\* warmup(): one silent chunk through encode/step/decode; any of them may raise
Warmup ==
    /\ mainpc = "warmup"
    /\ warmed < WarmupChunks
    /\ \/ /\ warmed' = warmed + 1
          /\ UNCHANGED mainpc
       \/ /\ mainpc' = "crashed"
          /\ UNCHANGED warmed
    /\ UNCHANGED <<primed, ncols, peers, lock, running, hpc, transport, close,
                   loops, rx, audio, wire, ncalls, resets>>

\* faulty variant: the server starts listening without waiting for warmup
ServeEarly ==
    /\ mainpc = "warmup"
    /\ mainpc' = "serving"
    /\ UNCHANGED <<primed, warmed, ncols, peers, lock, running, hpc, transport,
                   close, loops, rx, audio, wire, ncalls, resets>>

\* web.run_app / serve: connections are accepted from here on
Serve ==
    /\ mainpc = "warmup"
    /\ warmed = WarmupChunks
    /\ mainpc' = "serving"
    /\ UNCHANGED <<primed, warmed, ncols, peers, lock, running, hpc, transport,
                   close, loops, rx, audio, wire, ncalls, resets>>

\* ---------------------------------------------------------------- handler
\* accepted connection: close = False, then wait for the lock
Connect(s) ==
    /\ mainpc = "serving"
    /\ s \in peers
    /\ running = 0
    /\ hpc[s] = "idle"
    /\ hpc' = [hpc EXCEPT ![s] = "waiting"]
    /\ close' = [close EXCEPT ![s] = FALSE]
    /\ UNCHANGED <<srv, lock, running, transport, loops, rx, audio, wire,
                   ncalls, resets>>

\* faulty variant: acquire that does not look at the lock
LockFreeAlways == TRUE

\* asyncio.Lock.acquire succeeds only while nobody holds the lock
LockFree == ~lock

\* the handler is inside the `async with self.lock:' block
Holds(s) == hpc[s] \in {"handshake", "gather"}

\* faulty variant: the lock block is entered without reset_streaming
AcquireNoReset(s) ==
    /\ running = 0
    /\ hpc[s] = "waiting"
    /\ LockFree
    /\ lock' = TRUE
    /\ hpc' = [hpc EXCEPT ![s] = "handshake"]
    /\ UNCHANGED <<srv, running, transport, close, loops, rx, audio, wire,
                   ncalls, resets>>

\* `async with self.lock:' entered; stream reader/writer created; reset_streaming
Acquire(s) ==
    /\ running = 0
    /\ hpc[s] = "waiting"
    /\ LockFree
    /\ lock' = TRUE
    /\ resets' = [resets EXCEPT ![s] = @ + 1]
    /\ hpc' = [hpc EXCEPT ![s] = "handshake"]
    /\ UNCHANGED <<srv, running, transport, close, loops, rx, audio, wire,
                   ncalls>>

\* b"\x00"
HandshakeMsg == [kind |-> 0, frame |-> 0, col |-> 0, pcm |-> <<>>]

\* faulty variant: the loops are gathered without the handshake having been written
HandshakeSkipped(s) ==
    /\ running = 0
    /\ hpc[s] = "handshake"
    /\ IF CanSend(s)
       THEN /\ hpc' = [hpc EXCEPT ![s] = "gather"]
            /\ rpc' = [rpc EXCEPT ![s] = "wait"]
            /\ opc' = [opc EXCEPT ![s] = "check"]
            /\ spc' = [spc EXCEPT ![s] = "check"]
            /\ UNCHANGED lock
       ELSE /\ hpc' = [hpc EXCEPT ![s] = "failed"]
            /\ lock' = FALSE
            /\ UNCHANGED loops
    /\ UNCHANGED <<srv, running, transport, close, rx, audio, wire, ncalls,
                   resets>>

\* await ws.send_bytes(b"\x00"), then gather() creates the three loops; a
\* failed send leaves the `async with' block, which releases the lock
Handshake(s) ==
    /\ running = 0
    /\ hpc[s] = "handshake"
    /\ IF CanSend(s)
       THEN /\ wire' = [wire EXCEPT ![s] = Append(@, HandshakeMsg)]
            /\ hpc' = [hpc EXCEPT ![s] = "gather"]
            /\ rpc' = [rpc EXCEPT ![s] = "wait"]
            /\ opc' = [opc EXCEPT ![s] = "check"]
            /\ spc' = [spc EXCEPT ![s] = "check"]
            /\ UNCHANGED lock
       ELSE /\ hpc' = [hpc EXCEPT ![s] = "failed"]
            /\ lock' = FALSE
            /\ UNCHANGED <<wire, loops>>
    /\ UNCHANGED <<srv, running, transport, close, rx, audio, ncalls, resets>>

Raised(p) == p \in {"raised", "raised_model", "raised_send"}

Exited(p) == p = "done" \/ Raised(p)

\* faulty variant: gather completes only when all three loops have returned
GatherReadyAllReturned(s) ==
    rpc[s] = "done" /\ opc[s] = "done" /\ spc[s] = "done"

\* asyncio.gather without return_exceptions: returns when all three loops have
\* returned, raises as soon as one of them raised (the others keep running)
GatherReady(s) ==
    \/ Raised(rpc[s]) \/ Raised(opc[s]) \/ Raised(spc[s])
    \/ (rpc[s] = "done" /\ opc[s] = "done" /\ spc[s] = "done")

GatherOutcome(s) ==
    IF rpc[s] = "done" /\ opc[s] = "done" /\ spc[s] = "done"
    THEN "closed" ELSE "failed"

\* faulty variant: the handler ends without the lock being released
ReleaseKeepsLock(s) ==
    /\ running = 0
    /\ hpc[s] = "gather"
    /\ GatherReady(s)
    /\ hpc' = [hpc EXCEPT ![s] = GatherOutcome(s)]
    /\ UNCHANGED <<srv, lock, running, transport, close, loops, rx, audio,
                   wire, ncalls, resets>>

\* gather() completes; leaving `async with' releases the lock
Release(s) ==
    /\ running = 0
    /\ hpc[s] = "gather"
    /\ GatherReady(s)
    /\ hpc' = [hpc EXCEPT ![s] = GatherOutcome(s)]
    /\ lock' = FALSE
    /\ UNCHANGED <<srv, running, transport, close, loops, rx, audio, wire,
                   ncalls, resets>>

\* the peer closes the connection, or the connection fails
Disconnect(s) ==
    /\ running = 0
    /\ hpc[s] # "idle"
    /\ transport[s] = "open"
    /\ transport' = [transport EXCEPT ![s] = "closed"]
    /\ UNCHANGED <<srv, lock, running, hpc, close, loops, rx, audio, wire,
                   ncalls, resets>>

\* ---------------------------------------------------------------- recv_loop
\* faulty variant: the kind byte is not looked at
IsAudioAnyKind(m) == m.type = "BINARY" /\ Len(m.data) # 0

\* a message that reaches `opus_reader.append_bytes(payload)'
IsAudio(m) == m.type = "BINARY" /\ Len(m.data) # 0 /\ m.data[1] = 1

\* payload = message[1:]
Payload(m) == Tail(m.data)

\* `async for message in ws' yields the next message
RecvMsg(s, m) ==
    /\ running = 0
    /\ rpc[s] = "wait"
    /\ transport[s] = "open"
    /\ Sum(nrx, NumSessions) < MaxRecv
    /\ IsAudio(m) =>
          Sum(decAppended, NumSessions) + Len(Payload(m)) <= MaxSamples
    /\ nrx' = [nrx EXCEPT ![s] = @ + 1]
    /\ message' = [message EXCEPT ![s] = m]
    /\ rpc' = [rpc EXCEPT ![s] = "handle"]
    /\ running' = s
    /\ UNCHANGED <<srv, lock, hpc, transport, close, opc, spc, nappend,
                   decAppended, audio, wire, ncalls, resets>>

\* the loop body.  Non-binary, empty and unknown-kind messages are logged and
\* skipped; kind 1 is forwarded to the stream reader, whose append may raise
\* (`finally' then sets close)
RecvHandle(s) ==
    /\ running = s
    /\ rpc[s] = "handle"
    /\ message' = [message EXCEPT ![s] = NoMessage]
    /\ running' = 0
    /\ IF IsAudio(message[s])
       THEN /\ nappend' = [nappend EXCEPT ![s] = @ + 1]
            /\ \/ /\ decAppended' = [decAppended EXCEPT ![s] =
                                        @ + Len(Payload(message[s]))]
                  /\ rpc' = [rpc EXCEPT ![s] = "wait"]
                  /\ UNCHANGED close
               \/ /\ rpc' = [rpc EXCEPT ![s] = "raised"]
                  /\ close' = [close EXCEPT ![s] = TRUE]
                  /\ UNCHANGED decAppended
       ELSE /\ rpc' = [rpc EXCEPT ![s] = "wait"]
            /\ UNCHANGED <<nappend, decAppended, close>>
    /\ UNCHANGED <<srv, lock, hpc, transport, opc, spc, nrx, audio, wire,
                   ncalls, resets>>

\* faulty variant: the loop ends without setting close
RecvEndNoClose(s) ==
    /\ running = 0
    /\ rpc[s] = "wait"
    /\ transport[s] = "closed"
    /\ rpc' = [rpc EXCEPT ![s] = "done"]
    /\ UNCHANGED <<srv, lock, running, hpc, transport, close, opc, spc, rx,
                   audio, wire, ncalls, resets>>

\* the websocket reports an error or a close: the loop ends, `finally' sets close
RecvEnd(s) ==
    /\ running = 0
    /\ rpc[s] = "wait"
    /\ transport[s] = "closed"
    /\ rpc' = [rpc EXCEPT ![s] = "done"]
    /\ close' = [close EXCEPT ![s] = TRUE]
    /\ UNCHANGED <<srv, lock, running, hpc, transport, opc, spc, rx, audio,
                   wire, ncalls, resets>>

\* ---------------------------------------------------------------- opus_loop
\* first run of the task: `if close: return', else asyncio.sleep
OpusCheck(s) ==
    /\ running = 0
    /\ opc[s] = "check"
    /\ opc' = [opc EXCEPT ![s] = AfterCheck(close[s])]
    /\ UNCHANGED <<srv, lock, running, hpc, transport, close, rpc, spc, rx,
                   audio, wire, ncalls, resets>>

\* faulty variant: the new samples replace the buffer instead of extending it
ConcatDropsBuffer(buf, pcm) == [none |-> FALSE, data |-> pcm]

\* np.concatenate((all_pcm_data, pcm)), or pcm itself the first time
Concat(buf, pcm) ==
    [none |-> FALSE, data |-> IF buf.none THEN pcm ELSE buf.data \o pcm]

\* sizes read_pcm() may return when n samples have been fed and not yet read
ReadSizes(n) == 0..n

\* wake from the sleep, read_pcm() returns the k samples decoded so far; an
\* empty read goes back to the check, otherwise the samples are accumulated
OpusPoll(s) ==
    /\ running = 0
    /\ opc[s] = "sleep"
    /\ \E k \in ReadSizes(decAppended[s] - decRead[s]) :
         /\ decRead' = [decRead EXCEPT ![s] = @ + k]
         /\ IF k = 0
            THEN /\ opc' = [opc EXCEPT ![s] = AfterCheck(close[s])]
                 /\ UNCHANGED <<all_pcm_data, running>>
            ELSE /\ all_pcm_data' = [all_pcm_data EXCEPT ![s] =
                        Concat(@, Range(decRead[s] + 1, decRead[s] + k))]
                 /\ opc' = [opc EXCEPT ![s] = "while"]
                 /\ running' = s
    /\ UNCHANGED <<srv, lock, hpc, transport, close, rpc, spc, rx, encoded,
                   col, nsteps, tokens, encQ, wire, ncalls, resets>>

\* faulty variant: the frame is sliced off the wrong end of the buffer
ChunkFromEnd(data) == SubSeq(data, Len(data) - FrameSize + 1, Len(data))

\* chunk = all_pcm_data[:frame_size]
Chunk(data) == SubSeq(data, 1, FrameSize)

\* faulty variant: off-by-one slice: the last sample of the frame stays in the buffer
RestOffByOne(data) == SubSeq(data, FrameSize, Len(data))

\* all_pcm_data = all_pcm_data[frame_size:]
Rest(data) == SubSeq(data, FrameSize + 1, Len(data))

\* `while all_pcm_data.shape[-1] >= self.frame_size': slice one frame off
\* and encode it (encode may raise); when the buffer is short, back to the check
OpusFrame(s) ==
    /\ running = s
    /\ opc[s] = "while"
    /\ IF Len(all_pcm_data[s].data) >= FrameSize
       THEN /\ all_pcm_data' = [all_pcm_data EXCEPT ![s].data = Rest(@)]
            /\ encoded' = [encoded EXCEPT ![s] =
                              Append(@, Chunk(all_pcm_data[s].data))]
            /\ ncalls' = [ncalls EXCEPT ![s] = @ + 1]
            /\ \/ /\ col' = [col EXCEPT ![s] = 0]
                  /\ opc' = [opc EXCEPT ![s] = "col"]
                  /\ UNCHANGED running
               \/ /\ opc' = [opc EXCEPT ![s] = "raised_model"]
                  /\ running' = 0
                  /\ UNCHANGED col
       ELSE /\ opc' = [opc EXCEPT ![s] = AfterCheck(close[s])]
            /\ running' = 0
            /\ UNCHANGED <<all_pcm_data, encoded, ncalls, col>>
    /\ UNCHANGED <<srv, lock, hpc, transport, close, rpc, spc, rx, decRead,
                   nsteps, tokens, encQ, wire, resets>>

\* faulty variant: the column loop stops as soon as close is true
OpusStepChecksClose(s) ==
    /\ running = s
    /\ opc[s] = "col"
    /\ IF col[s] < ncols /\ ~close[s]
       THEN /\ ncalls' = [ncalls EXCEPT ![s] = @ + 1]
            /\ \/ /\ opc' = [opc EXCEPT ![s] = "raised_model"]
                  /\ running' = 0
                  /\ UNCHANGED <<nsteps, tokens>>
               \/ \E t \in TextIds \cup {NoTokens} :
                    /\ nsteps' = [nsteps EXCEPT ![s] = @ + 1]
                    /\ tokens' = [tokens EXCEPT ![s] = t]
                    /\ opc' = [opc EXCEPT ![s] = "tok"]
                    /\ UNCHANGED running
       ELSE /\ opc' = [opc EXCEPT ![s] = "while"]
            /\ UNCHANGED <<running, nsteps, tokens, ncalls>>
    /\ UNCHANGED <<srv, lock, hpc, transport, close, rpc, spc, rx, decRead,
                   all_pcm_data, encoded, col, encQ, wire, resets>>

\* `for c in range(codes.shape[-1])': tokens = lm_gen.step(codes[:, :, c:c+1]),
\* which raises, returns None, or returns tokens with some text id
OpusStep(s) ==
    /\ running = s
    /\ opc[s] = "col"
    /\ IF col[s] < ncols
       THEN /\ ncalls' = [ncalls EXCEPT ![s] = @ + 1]
            /\ \/ /\ opc' = [opc EXCEPT ![s] = "raised_model"]
                  /\ running' = 0
                  /\ UNCHANGED <<nsteps, tokens>>
               \/ \E t \in TextIds \cup {NoTokens} :
                    /\ nsteps' = [nsteps EXCEPT ![s] = @ + 1]
                    /\ tokens' = [tokens EXCEPT ![s] = t]
                    /\ opc' = [opc EXCEPT ![s] = "tok"]
                    /\ UNCHANGED running
       ELSE /\ opc' = [opc EXCEPT ![s] = "while"]
            /\ UNCHANGED <<running, nsteps, tokens, ncalls>>
    /\ UNCHANGED <<srv, lock, hpc, transport, close, rpc, spc, rx, decRead,
                   all_pcm_data, encoded, col, encQ, wire, resets>>

\* faulty variant: only the padding id is filtered
IsTextButPad(t) == t # 0

\* `if text_token not in (0, 3)'
IsText(t) == t \notin ReservedIds

\* index, in the decoded sample stream, of the frame a chunk holds
FrameOf(chunk) == ((chunk[1] - 1) \div FrameSize) + 1

\* faulty variant: the output is labelled with the first frame ever encoded
CurFrameFirst(s) == FrameOf(encoded[s][1])

\* the frame opus_loop is handling: the last one passed to encode
CurFrame(s) == FrameOf(encoded[s][Len(encoded[s])])

\* b"\x02" + bytes(_text): the text message of the step
TextMsg(s) == [kind |-> 2, frame |-> CurFrame(s), col |-> col[s], pcm |-> <<>>]

\* main_pcm of the step, as appended to opus_writer
PcmOf(s) == <<CurFrame(s), col[s]>>

\* the rest of the column: `continue' when tokens is None; else mimi.decode
\* (may raise), opus_writer.append_pcm, and for a text id that is not reserved
\* the kind-2 message, written to the websocket by opus_loop itself
OpusEmit(s) ==
    /\ running = s
    /\ opc[s] = "tok"
    /\ tokens' = [tokens EXCEPT ![s] = NoTokens]
    /\ IF tokens[s] = NoTokens
       THEN /\ col' = [col EXCEPT ![s] = @ + 1]
            /\ opc' = [opc EXCEPT ![s] = "col"]
            /\ UNCHANGED <<running, encQ, wire, ncalls>>
       ELSE /\ ncalls' = [ncalls EXCEPT ![s] = @ + 1]
            /\ \/ /\ opc' = [opc EXCEPT ![s] = "raised_model"]
                  /\ running' = 0
                  /\ UNCHANGED <<col, encQ, wire>>
               \/ /\ encQ' = [encQ EXCEPT ![s] = Append(@, PcmOf(s))]
                  /\ IF IsText(tokens[s])
                     THEN IF CanSend(s)
                          THEN /\ wire' = [wire EXCEPT ![s] = Append(@, TextMsg(s))]
                               /\ opc' = [opc EXCEPT ![s] = "sent"]
                               /\ running' = 0
                               /\ UNCHANGED col
                          ELSE /\ opc' = [opc EXCEPT ![s] = "raised_send"]
                               /\ running' = 0
                               /\ UNCHANGED <<col, wire>>
                     ELSE /\ col' = [col EXCEPT ![s] = @ + 1]
                          /\ opc' = [opc EXCEPT ![s] = "col"]
                          /\ UNCHANGED <<running, wire>>
    /\ UNCHANGED <<srv, lock, hpc, transport, close, rpc, spc, rx, decRead,
                   all_pcm_data, encoded, nsteps, resets>>

\* `await ws.send_bytes(msg)' returns: next column
OpusSent(s) ==
    /\ running = 0
    /\ opc[s] = "sent"
    /\ col' = [col EXCEPT ![s] = @ + 1]
    /\ opc' = [opc EXCEPT ![s] = "col"]
    /\ running' = s
    /\ UNCHANGED <<srv, lock, hpc, transport, close, rpc, spc, rx, decRead,
                   all_pcm_data, encoded, nsteps, tokens, encQ, wire, ncalls,
                   resets>>

\* ---------------------------------------------------------------- send_loop
\* first run of the task, and the return of `await ws.send_bytes'
SendCheck(s) ==
    /\ running = 0
    /\ spc[s] = "check"
    /\ spc' = [spc EXCEPT ![s] = AfterCheck(close[s])]
    /\ UNCHANGED <<srv, lock, running, hpc, transport, close, rpc, opc, rx,
                   audio, wire, ncalls, resets>>

\* b"\x01" + msg: the audio message carrying the frames read from opus_writer
AudioMsg(frames) == [kind |-> 1, frame |-> 0, col |-> 0, pcm |-> frames]

\* faulty variant: send_loop also reads, and so drains, the stream reader
SendPollReadsReader(s) ==
    /\ running = 0
    /\ spc[s] = "sleep"
    /\ \E k \in ReadSizes(Len(encQ[s])) :
         /\ encQ' = [encQ EXCEPT ![s] = SubSeq(@, k + 1, Len(@))]
         /\ IF k > 0
            THEN IF CanSend(s)
                 THEN /\ wire' = [wire EXCEPT ![s] =
                                     Append(@, AudioMsg(SubSeq(encQ[s], 1, k)))]
                      /\ spc' = [spc EXCEPT ![s] = "check"]
                 ELSE /\ spc' = [spc EXCEPT ![s] = "raised"]
                      /\ UNCHANGED wire
            ELSE /\ spc' = [spc EXCEPT ![s] = AfterCheck(close[s])]
                 /\ UNCHANGED wire
    /\ decRead' = [decRead EXCEPT ![s] = decAppended[s]]
    /\ UNCHANGED <<srv, lock, running, hpc, transport, close, rpc, opc, rx,
                   all_pcm_data, encoded, col, nsteps, tokens, ncalls, resets>>

\* wake from the sleep, read_bytes() returns the k frames encoded so far; a
\* non-empty read is written as one kind-1 message
SendPoll(s) ==
    /\ running = 0
    /\ spc[s] = "sleep"
    /\ \E k \in ReadSizes(Len(encQ[s])) :
         /\ encQ' = [encQ EXCEPT ![s] = SubSeq(@, k + 1, Len(@))]
         /\ IF k > 0
            THEN IF CanSend(s)
                 THEN /\ wire' = [wire EXCEPT ![s] =
                                     Append(@, AudioMsg(SubSeq(encQ[s], 1, k)))]
                      /\ spc' = [spc EXCEPT ![s] = "check"]
                 ELSE /\ spc' = [spc EXCEPT ![s] = "raised"]
                      /\ UNCHANGED wire
            ELSE /\ spc' = [spc EXCEPT ![s] = AfterCheck(close[s])]
                 /\ UNCHANGED wire
    /\ UNCHANGED <<srv, lock, running, hpc, transport, close, rpc, opc, rx,
                   decRead, all_pcm_data, encoded, col, nsteps, tokens, ncalls,
                   resets>>

\* ---------------------------------------------------------------- system
Next ==
    \/ Construct
    \/ Warmup
    \/ Serve
    \/ \E s \in Sessions : Connect(s)
    \/ \E s \in Sessions : Acquire(s)
    \/ \E s \in Sessions : Handshake(s)
    \/ \E s \in Sessions : Release(s)
    \/ \E s \in Sessions : Disconnect(s)
    \/ \E s \in Sessions : \E m \in Messages : RecvMsg(s, m)
    \/ \E s \in Sessions : RecvHandle(s)
    \/ \E s \in Sessions : RecvEnd(s)
    \/ \E s \in Sessions : OpusCheck(s)
    \/ \E s \in Sessions : OpusPoll(s)
    \/ \E s \in Sessions : OpusFrame(s)
    \/ \E s \in Sessions : OpusStep(s)
    \/ \E s \in Sessions : OpusEmit(s)
    \/ \E s \in Sessions : OpusSent(s)
    \/ \E s \in Sessions : SendCheck(s)
    \/ \E s \in Sessions : SendPoll(s)

Spec == Init /\ [][Next]_vars

WideSpec == WideInit /\ [][Next]_vars

\* The asyncio event loop runs every task that is ready: weak fairness of the
\* handler's and the loops' own steps.  Nothing is assumed of the peer
\* (RecvMsg, Disconnect).
Fairness ==
    \A s \in Sessions :
        /\ WF_vars(Acquire(s))
        /\ WF_vars(Handshake(s))
        /\ WF_vars(Release(s))
        /\ WF_vars(RecvHandle(s))
        /\ WF_vars(RecvEnd(s))
        /\ WF_vars(OpusCheck(s))
        /\ WF_vars(OpusPoll(s))
        /\ WF_vars(OpusFrame(s))
        /\ WF_vars(OpusStep(s))
        /\ WF_vars(OpusEmit(s))
        /\ WF_vars(OpusSent(s))
        /\ WF_vars(SendCheck(s))
        /\ WF_vars(SendPoll(s))

FairSpec == Spec /\ Fairness

\* Every connection that has arrived eventually closes or fails.
Closing == \A s \in Sessions : WF_vars(Disconnect(s))

ClosingSpec == FairSpec /\ Closing

\* ================================================================ properties

\* C1 -- Single active session: in every reachable state at most one session
\* is inside the `async with self.lock' block, i.e. holds the model lock.
C1_SingleActiveSession == Cardinality({s \in Sessions : Holds(s)}) <= 1

\* a session holds the lock while another connection is waiting for it
C1_Witness ==
    \E s, t \in Sessions : s # t /\ hpc[s] = "gather" /\ hpc[t] = "waiting"

\* C2 -- Every encode/step/decode call made for a session happens while that
\* session holds the lock; in particular none after the lock was released
\* because one of its loops raised.
C2_ModelCallsUnderLock ==
    [][\A s \in Sessions : ncalls'[s] # ncalls[s] => Holds(s)]_vars

\* C3 -- Handshake precedence: on every session's websocket the kind-0
\* handshake is the first message written, it is written once only, and it
\* has been written before any of the session's loops exists (so no kind-1 or
\* kind-2 message can precede it).
C3_HandshakePrecedence ==
    \A s \in Sessions :
        /\ \A i \in 1..Len(wire[s]) : (wire[s][i].kind = 0) <=> (i = 1)
        /\ rpc[s] # "none" => wire[s] # <<>>

\* a session has written its handshake and then both audio and text
C3_Witness ==
    \E s \in Sessions :
        /\ \E i \in 1..Len(wire[s]) : wire[s][i].kind = 1
        /\ \E i \in 1..Len(wire[s]) : wire[s][i].kind = 2

\* C4 -- When two connections overlap, the handshake of the later session is
\* written only when every loop of the other session has exited (returned or
\* raised).
C4_HandshakeAfterFullClose ==
    [][\A t \in Sessions :
          (wire[t] = <<>> /\ wire'[t] # <<>>) =>
              \A s \in Sessions \ {t} :
                  \/ rpc[s] = "none"
                  \/ Exited(rpc[s]) /\ Exited(opc[s]) /\ Exited(spc[s])]_vars

\* C5 -- Frame conservation: the samples passed to encode so far, followed by
\* the accumulation buffer, are exactly the samples read from the stream
\* reader so far, in the order they were read (nothing lost, duplicated or
\* reordered).
C5_FrameConservation ==
    \A s \in Sessions :
        Flatten(encoded[s]) \o all_pcm_data[s].data = Range(1, decRead[s])

\* a frame has been encoded and a sample of a later chunk is left in the buffer
C5_Witness ==
    \E s \in Sessions :
        /\ Len(encoded[s]) >= 1
        /\ Len(all_pcm_data[s].data) = 1
        /\ decRead[s] > FrameSize


\* C6 -- Teardown on disconnect: when recv_loop has ended on a websocket
\* close or error, close is true; once close is true neither opus_loop nor
\* send_loop starts another poll iteration (none passes the check and goes to
\* sleep again); and the lock held by the session is eventually released.
C6_TeardownOnDisconnect ==
    /\ [](\A s \in Sessions : rpc[s] = "done" => close[s])
    /\ [][\A s \in Sessions : close[s] =>
              /\ opc'[s] = "sleep" => opc[s] = "sleep"
              /\ spc'[s] = "sleep" => spc[s] = "sleep"]_vars
    /\ \A s \in Sessions : (rpc[s] = "done") ~> ~Holds(s)

\* recv_loop ended on a disconnect, both other loops returned at their check
\* and the handler left the lock block
C6_Witness ==
    \E s \in Sessions :
        /\ rpc[s] = "done" /\ opc[s] = "done" /\ spc[s] = "done"
        /\ hpc[s] = "closed" /\ ~lock

\* C7 -- Model failure teardown: once a session whose encode, step or decode
\* raised has left the lock block, close is true and its recv_loop and
\* send_loop have exited.
C7_ModelFailureTeardown ==
    \A s \in Sessions :
        (opc[s] = "raised_model" /\ hpc[s] = "failed") =>
            (close[s] /\ Exited(rpc[s]) /\ Exited(spc[s]))

\* kind-2 messages among those a step appends to the websocket of s
NewTexts(s) ==
    {i \in (Len(wire[s]) + 1)..Len(wire'[s]) : wire'[s][i].kind = 2}

\* C8 -- Text filtering: a step whose text id is 0 or 3 (or that returned no
\* tokens) produces no kind-2 message; a step with any other text id whose
\* column is handled to the end produces exactly one; nothing else produces
\* kind-2 messages.
C8_TextFiltering ==
    [][\A s \in Sessions :
          Cardinality(NewTexts(s)) =
              IF /\ opc[s] = "tok"
                 /\ tokens[s] \notin {0, 3, NoTokens}
                 /\ ~Raised(opc'[s])
              THEN 1 ELSE 0]_vars

\* pcm frames the session has produced so far (each by a step that returned tokens)
ProducedPcm(s) ==
    {encQ[s][i] : i \in 1..Len(encQ[s])}
    \cup UNION {{wire[s][i].pcm[j] : j \in 1..Len(wire[s][i].pcm)} :
                   i \in 1..Len(wire[s])}

HasText(s, p) ==
    \E i \in 1..Len(wire[s]) :
        wire[s][i].kind = 2 /\ <<wire[s][i].frame, wire[s][i].col>> = p

\* one step returned a reserved id (audio, no text) and another a text id
C8_Witness ==
    \E s \in Sessions : \E p, q \in ProducedPcm(s) :
        ~HasText(s, p) /\ HasText(s, q)

\* C9 -- Order preservation: the kind-2 messages on a session's websocket are
\* in increasing (frame index, code column) order.
C9_TextOrder ==
    \A s \in Sessions : \A i, j \in 1..Len(wire[s]) :
        (i < j /\ wire[s][i].kind = 2 /\ wire[s][j].kind = 2) =>
            \/ wire[s][i].frame < wire[s][j].frame
            \/ /\ wire[s][i].frame = wire[s][j].frame
               /\ wire[s][i].col < wire[s][j].col

\* text of two different frames has been written
C9_Witness ==
    \E s \in Sessions : \E i, j \in 1..Len(wire[s]) :
        /\ i < j /\ wire[s][i].kind = 2 /\ wire[s][j].kind = 2
        /\ wire[s][i].frame # wire[s][j].frame

\* zero-length binary, binary with a kind byte other than 1, or non-binary
ProtocolViolation(m) ==
    m.type # "BINARY" \/ m.data = <<>> \/ m.data[1] # 1

\* C10 -- Protocol violations are non-fatal and effect-free: handling a
\* zero-length, unknown-kind or non-binary message leaves close false, feeds
\* nothing to the stream reader, writes nothing to the websocket, leaves the
\* handler where it is, and recv_loop goes on to wait for the next message.
C10_ProtocolViolationsIgnored ==
    [][\A s \in Sessions :
          (rpc[s] = "handle" /\ rpc'[s] # "handle"
              /\ ProtocolViolation(message[s])) =>
                /\ ~close'[s]
                /\ nappend'[s] = nappend[s]
                /\ decAppended'[s] = decAppended[s]
                /\ wire'[s] = wire[s]
                /\ hpc'[s] = hpc[s]
                /\ rpc'[s] = "wait"]_vars

\* a violation and an audio message have both been handled and the session
\* is still active and reading
C10_Witness ==
    \E s \in Sessions :
        /\ nrx[s] = 2 /\ nappend[s] = 1 /\ decAppended[s] > 0
        /\ rpc[s] = "wait" /\ hpc[s] = "gather" /\ ~close[s]

\* opus_loop is at its poll boundary: at `if close' / asyncio.sleep, or returned
AtPollBoundary(s) == opc[s] \in {"check", "sleep", "done"}

\* C11 -- Frame boundary: every chunk passed to encode has exactly frame_size
\* samples and is encoded only when that many samples have been read; whenever
\* opus_loop is at its poll boundary the buffer holds fewer than frame_size
\* samples and the number of encode calls is floor(samples read / frame_size).
C11_FrameBoundary ==
    \A s \in Sessions :
        /\ \A i \in 1..Len(encoded[s]) : Len(encoded[s][i]) = FrameSize
        /\ Len(encoded[s]) * FrameSize <= decRead[s]
        /\ AtPollBoundary(s) =>
              /\ Len(all_pcm_data[s].data) < FrameSize
              /\ Len(encoded[s]) = decRead[s] \div FrameSize

\* back at the sleep after one frame was encoded, with one sample of the next
\* frame waiting in the buffer
C11_Witness ==
    \E s \in Sessions :
        /\ opc[s] = "sleep"
        /\ Len(encoded[s]) = 1
        /\ decRead[s] = FrameSize + 1
        /\ Len(all_pcm_data[s].data) = 1

\* C12 -- reset_streaming is called once per session: not before the session
\* has the lock, exactly once from the moment it has entered the lock block,
\* and the call is made while the lock is held, before the handshake is
\* written and before any encode/step/decode call of the session.
C12_ResetOncePerSession ==
    /\ [](\A s \in Sessions :
            /\ resets[s] = IF hpc[s] \in {"idle", "waiting"} THEN 0 ELSE 1
            /\ (wire[s] # <<>> \/ ncalls[s] > 0) => resets[s] = 1)
    /\ [][\A s \in Sessions : resets'[s] # resets[s] =>
              /\ lock' /\ Holds(s)'
              /\ wire[s] = <<>> /\ wire'[s] = <<>>
              /\ ncalls[s] = 0 /\ ncalls'[s] = 0]_vars

\* two sessions in turn were reset once each and both went on to encode
C12_Witness ==
    \E s, t \in Sessions :
        /\ s # t
        /\ resets[s] = 1 /\ resets[t] = 1
        /\ Len(encoded[s]) > 0 /\ Len(encoded[t]) > 0

\* model-step order of two (frame, column) pairs
StepBefore(p, q) == p[1] < q[1] \/ (p[1] = q[1] /\ p[2] < q[2])

\* C13 -- Text/audio interleaving: on a session's websocket the kind-2 text
\* of a step comes after every kind-1 message carrying audio of an earlier
\* step and before every kind-1 message carrying audio of a later step.
C13_TextAudioInterleaving ==
    \A s \in Sessions : \A i, j \in 1..Len(wire[s]) :
        (wire[s][i].kind = 2 /\ wire[s][j].kind = 1) =>
            \A k \in 1..Len(wire[s][j].pcm) :
                /\ StepBefore(wire[s][j].pcm[k], <<wire[s][i].frame, wire[s][i].col>>)
                      => j < i
                /\ StepBefore(<<wire[s][i].frame, wire[s][i].col>>, wire[s][j].pcm[k])
                      => i < j

\* lifecycle stage of a session, from where its handler is
Stage(h) ==
    CASE h \in {"idle", "waiting"}  -> "Idle"
      [] h = "handshake"            -> "HandshakeSent"
      [] h = "gather"               -> "Active"
      [] h \in {"closed", "failed"} -> "Closed"

StageMoves ==
    {<<"Idle", "HandshakeSent">>, <<"HandshakeSent", "Active">>,
     <<"HandshakeSent", "Closed">>, <<"Active", "Closed">>}

\* C14 -- Session lifecycle: a session only moves forward along
\* Idle -> HandshakeSent -> Active -> Closed (going from HandshakeSent
\* straight to Closed when the handshake write fails); the lock is locked
\* exactly while some session is HandshakeSent or Active, it is taken by the
\* step that leaves Idle and released by the step that enters Closed,
\* whichever way Closed is reached.
C14_SessionLifecycle ==
    /\ [](lock <=> \E s \in Sessions :
                      Stage(hpc[s]) \in {"HandshakeSent", "Active"})
    /\ [][\A s \in Sessions : Stage(hpc'[s]) # Stage(hpc[s]) =>
              /\ <<Stage(hpc[s]), Stage(hpc'[s])>> \in StageMoves
              /\ Stage(hpc[s]) = "Idle" => (~lock /\ lock')
              /\ Stage(hpc'[s]) = "Closed" => (lock /\ ~lock')]_vars

\* one session ended on a failed handshake write, the other on a loop that
\* raised, and the lock is free
C14_Witness ==
    \E s, t \in Sessions :
        /\ hpc[s] = "failed" /\ rpc[s] = "none"
        /\ hpc[t] = "failed" /\ (Raised(rpc[t]) \/ Raised(opc[t]) \/ Raised(spc[t]))
        /\ ~lock

\* binary, kind byte 1, and at least one payload byte after it
AudioWithPayload(m) ==
    m.type = "BINARY" /\ Len(m.data) > 1 /\ m.data[1] = 1

\* C15 -- Ingest forwarding: handling a message calls append_bytes exactly
\* when the message is binary with kind byte 1 and a non-empty payload, and
\* then once, with the message minus its first byte; a kind-1 message with an
\* empty payload is not forwarded; nothing else calls append_bytes.
C15_IngestForwarding ==
    [][\A s \in Sessions :
          /\ nappend'[s] # nappend[s] =>
                /\ rpc[s] = "handle"
                /\ nappend'[s] = nappend[s] + 1
                /\ AudioWithPayload(message[s])
                /\ decAppended'[s] \in
                      {decAppended[s], decAppended[s] + Len(message[s].data) - 1}
          /\ (rpc[s] = "handle" /\ rpc'[s] # "handle"
                 /\ AudioWithPayload(message[s])) =>
                nappend'[s] = nappend[s] + 1]_vars

\* C16 -- close is write-once-true: it is false until the session's
\* recv_loop has started, once true it never becomes false again, and it is
\* true whenever recv_loop has exited, be it on a websocket close or error or
\* on an exception raised inside the loop.
C16_CloseWriteOnce ==
    /\ [](\A s \in Sessions :
            /\ rpc[s] = "none" => ~close[s]
            /\ Exited(rpc[s]) => close[s])
    /\ [][\A s \in Sessions : close[s] => close'[s]]_vars

\* recv_loop of one session ended on an exception, that of the other on a
\* websocket close, and close is true in both
C16_Witness ==
    \E s, t \in Sessions :
        /\ rpc[s] = "raised" /\ close[s]
        /\ rpc[t] = "done" /\ close[t]

\* C17 -- After the handshake every message written to a session's websocket
\* is written by a step of send_loop; opus_loop takes no step that writes.
C17_EgressOnlyWrites ==
    [][\A s \in Sessions :
          (wire[s] # <<>> /\ wire'[s] # wire[s]) =>
              /\ spc[s] = "sleep" /\ spc'[s] = "check"
              /\ opc'[s] = opc[s]]_vars

\* opus_loop is inside the column loop of a frame
MidFrame(p) == p \in {"col", "tok", "sent"}

\* C18 -- No mid-frame cancellation: whatever the value of close, a frame
\* that has been encoded has every one of its columns stepped, and decoded
\* when the step returned tokens, unless a call raises; opus_loop returns only
\* at its poll-boundary check, with close true and less than a frame buffered.
C18_NoMidFrameCancel ==
    /\ [](\A s \in Sessions :
            opc[s] \in {"check", "sleep", "while", "done"} =>
                nsteps[s] = ncols * Len(encoded[s]))
    /\ [][\A s \in Sessions :
              /\ (MidFrame(opc[s]) /\ opc'[s] # opc[s]) =>
                    (MidFrame(opc'[s]) \/ opc'[s] = "while" \/ Raised(opc'[s]))
              /\ (opc[s] = "col" /\ opc'[s] = "while") => col[s] = ncols
              /\ (opc[s] = "col" /\ opc'[s] # "col" /\ col[s] < ncols) =>
                    ncalls'[s] = ncalls[s] + 1
              /\ (opc[s] = "tok" /\ opc'[s] # "tok" /\ tokens[s] # NoTokens) =>
                    ncalls'[s] = ncalls[s] + 1
              /\ (opc'[s] = "done" /\ opc[s] # "done") =>
                    /\ close[s]
                    /\ opc[s] \in {"check", "sleep", "while"}
                    /\ Len(all_pcm_data[s].data) < FrameSize]_vars

\* the text of column 0 was written while the websocket was open; the peer
\* then disconnected and recv_loop set close while opus_loop was suspended in
\* that write; column 1 of the same frame has been stepped all the same
C18_Witness ==
    \E s \in Sessions :
        /\ close[s] /\ rpc[s] = "done"
        /\ opc[s] = "tok" /\ col[s] = 1
        /\ HasText(s, <<CurFrame(s), 0>>)

\* pcm frames appended to opus_writer, in the order appended: those already
\* written in kind-1 messages, then those not yet read
AppendedPcm(s) ==
    Flatten([i \in 1..Len(wire[s]) |-> wire[s][i].pcm]) \o encQ[s]

\* C19 -- Audio output ordering: a step that returns tokens, and whose decode
\* returns, appends exactly one pcm frame, that of the frame last encoded and
\* of the current column; a step that returns None appends nothing and
\* writes nothing; nothing else appends; the pcm frames are in model-step
\* order, each of a frame already encoded.
C19_AudioOrder ==
    /\ [](\A s \in Sessions : \A i, j \in 1..Len(AppendedPcm(s)) :
            /\ AppendedPcm(s)[i][1] \in 1..Len(encoded[s])
            /\ AppendedPcm(s)[i][2] \in 0..(ncols - 1)
            /\ i < j => StepBefore(AppendedPcm(s)[i], AppendedPcm(s)[j]))
    /\ [][\A s \in Sessions :
              /\ Len(encQ'[s]) > Len(encQ[s]) =>
                    opc[s] = "tok" /\ tokens[s] # NoTokens
              /\ (opc[s] = "tok" /\ opc'[s] # "tok") =>
                    IF tokens[s] # NoTokens /\ opc'[s] # "raised_model"
                    THEN encQ'[s] = Append(encQ[s], <<Len(encoded[s]), col[s]>>)
                    ELSE encQ'[s] = encQ[s] /\ wire'[s] = wire[s]]_vars

\* two frames were handled to the end, some step returned None, and pcm of
\* both frames has been appended
C19_Witness ==
    \E s \in Sessions :
        /\ opc[s] = "sleep" /\ ~Raised(spc[s])
        /\ Len(encoded[s]) = 2
        /\ Len(AppendedPcm(s)) < nsteps[s]
        /\ \E i, j \in 1..Len(AppendedPcm(s)) :
              AppendedPcm(s)[i][1] = 1 /\ AppendedPcm(s)[j][1] = 2

\* a step taken by recv_loop, by opus_loop, by send_loop of s and by no other
\* loop of s
RecvStep(s) == rpc'[s] # rpc[s] /\ opc'[s] = opc[s] /\ spc'[s] = spc[s]

OpusStepTaken(s) == opc'[s] # opc[s] /\ rpc'[s] = rpc[s] /\ spc'[s] = spc[s]

SendStep(s) == spc'[s] # spc[s] /\ rpc'[s] = rpc[s] /\ opc'[s] = opc[s]

\* C20 -- Single writer, single reader: within a session the stream reader is
\* appended to only by steps of recv_loop and read only by steps of
\* opus_loop, the stream writer is appended to only by steps of opus_loop and
\* read only by steps of send_loop, and the accumulation buffer changes only
\* in steps of opus_loop.
C20_SingleWriterReader ==
    [][\A s \in Sessions :
          /\ (nappend'[s] # nappend[s] \/ decAppended'[s] # decAppended[s]) =>
                (rpc[s] = "handle" /\ RecvStep(s))
          /\ decRead'[s] # decRead[s] =>
                (opc[s] = "sleep" /\ OpusStepTaken(s))
          /\ all_pcm_data'[s] # all_pcm_data[s] =>
                (opc[s] \in {"sleep", "while"} /\ OpusStepTaken(s))
          /\ Len(encQ'[s]) > Len(encQ[s]) =>
                (opc[s] = "tok" /\ OpusStepTaken(s))
          /\ Len(encQ'[s]) < Len(encQ[s]) =>
                (spc[s] = "sleep" /\ SendStep(s))]_vars

\* every channel of a session has been used: samples appended and read, the
\* buffer written, pcm appended, some of it read and sent, some still queued
C20_Witness ==
    \E s \in Sessions :
        /\ decAppended[s] > 0 /\ decRead[s] > 0
        /\ ~all_pcm_data[s].none
        /\ encQ[s] # <<>>
        /\ \E i \in 1..Len(wire[s]) : wire[s][i].kind = 1

\* no connection has been accepted
NoConnection == \A s \in Sessions : hpc[s] = "idle"

\* C21 -- Warm-up ordering: a connection is accepted, and so the lock taken,
\* only when the model has been primed and exactly 4 silent chunks have been
\* run through it; warm-up chunks are run only at startup, with no connection
\* accepted and the lock free, never again once the server listens; and when
\* priming or warm-up raised, the process stays crashed and never accepts a
\* connection.
C21_WarmupOrdering ==
    /\ [](/\ warmed <= WarmupChunks
          /\ (mainpc = "serving" \/ ~NoConnection \/ lock) =>
                (primed /\ warmed = WarmupChunks /\ mainpc = "serving")
          /\ mainpc = "crashed" => (NoConnection /\ ~lock))
    /\ [][/\ warmed' # warmed =>
                /\ mainpc = "warmup" /\ primed /\ warmed' = warmed + 1
                /\ NoConnection /\ ~lock
          /\ mainpc = "serving" => (mainpc' = "serving" /\ warmed' = warmed)
          /\ mainpc = "crashed" => mainpc' = "crashed"]_vars

\* after the four warm-up chunks two sessions have been served in turn,
\* without another warm-up
C21_Witness ==
    /\ primed /\ warmed = WarmupChunks
    /\ \E s, t \in Sessions :
          /\ s # t
          /\ hpc[s] \in {"closed", "failed"} /\ ncalls[s] > 0
          /\ Holds(t) /\ ncalls[t] > 0

\* every connection that arrived is Closed and the lock is free
AllClosed ==
    /\ ~lock
    /\ \A s \in Sessions : hpc[s] \in {"idle", "closed", "failed"}

\* C22 -- No deadlock on the lock, as stated: when every connection
\* eventually closes or fails, every connection waiting for the lock
\* eventually has its handshake written, and eventually every session is
\* Closed with the lock free.
C22_NoDeadlock ==
    /\ \A s \in Sessions : (hpc[s] = "waiting") ~> (wire[s] # <<>>)
    /\ <>[]AllClosed

\* C22, amended -- when every connection eventually closes or fails, every
\* connection waiting for the lock eventually enters the lock block; its
\* handshake is written exactly when its websocket is still open at that
\* moment, otherwise the session goes straight to Closed; and eventually
\* every session is Closed with the lock free.
C22_NoDeadlockAmended ==
    /\ \A s \in Sessions : (hpc[s] = "waiting") ~> Holds(s)
    /\ \A s \in Sessions :
          (hpc[s] = "waiting") ~>
              (wire[s] # <<>> \/ (transport[s] = "closed" /\ hpc[s] = "failed"))
    /\ [][\A s \in Sessions :
              (hpc[s] = "handshake" /\ hpc'[s] # "handshake") =>
                  (wire'[s] # <<>> <=> transport[s] = "open")]_vars
    /\ <>[]AllClosed

\* both sessions are Closed and the lock is free; one was served, the other
\* had lost its connection by the time it got the lock and was sent nothing
C22_Witness ==
    /\ AllClosed
    /\ \E s, t \in Sessions :
          /\ hpc[s] = "closed" /\ wire[s] # <<>>
          /\ hpc[t] = "failed" /\ wire[t] = <<>> /\ resets[t] = 1

====
